---- MODULE Spec2Model ----
(***************************************************************************)
(* The connection/room state machine of src/server.js: the rooms registry, *)
(* the per-connection fields set in the 'connection' callback, the         *)
(* 'message' handler (one action per message type) and the 'close'         *)
(* handler.  One action is one complete run of a handler: Node runs each   *)
(* callback to completion before the next one starts.                      *)
(*                                                                         *)
(* Strings that the code trims, slices or tests for emptiness (names) are  *)
(* sequences of one-character strings.  Room ids are non-empty strings.    *)
(* Connection ids (Math.random at line 29) are taken to be distinct.       *)
(* The registry (a JS object) is the sequence of its entries in key order; *)
(* the members of a room (a JS Set) are a set; what one step sends is kept *)
(* per recipient, in the order the handler sends it.                       *)
(***************************************************************************)
EXTENDS Integers, Sequences, FiniteSets, TLC

\* ---------------------------------------------------------------- bounds
NumConns == 3
MaxSteps == 3

\* ------------------------------------------------------ program constants
NameCap == 40

Conns == 1..NumConns
RoomIds == {"r1", "r2"}

Null == "<null>"
Undefined == "<undefined>"

\* the id line 29 gives the c-th connection
IdTable == <<"k1", "k2", "k3", "k4", "k5", "k6">>
NoSuchId == "k0"

Anonymous == <<"A", "n", "o", "n", "y", "m", "o", "u", "s">>

VARIABLES
  ws,       \* the connection objects: their readyState and the fields of lines 28-33
  rooms,    \* the registry of line 7
  sent,     \* what the last step sent, per recipient
  last,     \* the event the last step handled
  crashed,  \* an exception has left a handler uncaught
  budget,   \* how many more steps are followed
  acted     \* how many connections have had an event since they were accepted

vars == <<ws, rooms, sent, last, crashed, budget, acted>>

\* ------------------------------------------------------------ JS helpers
\* JS truthiness of a string-valued field that may be null or undefined
Truthy(v) == v \notin {Null, Undefined, ""}

\* !!v for the values a flag field is drawn from
ToBoolean(v) == v \notin {"false", Undefined, Null, ""}

\* String.prototype.toLowerCase over the tags of the model
ToLowerCase(s) ==
  CASE s = "News" -> "news"
    [] s = "NEWS" -> "news"
    [] OTHER -> s

RECURSIVE TrimStart(_)
TrimStart(s) ==
  IF s # <<>> /\ Head(s) = " " THEN TrimStart(Tail(s)) ELSE s

RECURSIVE TrimEnd(_)
TrimEnd(s) ==
  IF s # <<>> /\ s[Len(s)] = " " THEN TrimEnd(SubSeq(s, 1, Len(s) - 1)) ELSE s

Trim(s) == TrimEnd(TrimStart(s))

\* s.slice(0, n)
Slice(s, n) == SubSeq(s, 1, IF Len(s) < n THEN Len(s) ELSE n)

\* ------------------------------------------------------- the input frames
FlagInputs == {"true", "false", Undefined}
NameInputs == {<<>>, <<" ", "B", "o", " ">>}
\* the name field of a chat-message: absent, or given
ChatNameInputs == {Undefined, "Zed"}
\* title and tags of a create-room: both absent, or both given
CreateInputs == {[title |-> Undefined, tags |-> [isArray |-> FALSE, v |-> <<>>]],
                 [title |-> "Talk", tags |-> [isArray |-> TRUE, v |-> <<"News">>]]}
TagFilterInputs == {Undefined, "NEWS", "music"}
LeaveInputs == RoomIds \cup {Undefined}
UserIdInputs == {IdTable[c] : c \in Conns} \cup {NoSuchId}
\* the to field of a signaling frame: an id, absent, or the empty string
ToInputs == UserIdInputs \cup {Undefined, ""}
HostControlTypes == {"host-mute-audio", "host-hide-video"}
SignalTypes == {"offer", "answer", "ice-candidate"}

\* before the first event
NoFrame == [type |-> "none", from |-> 0]

\* what is kept of a frame: its type, its sender, and the fields the handler
\* read (a handler that returns at its guard has read none)
Frame(read, type, c, fields) ==
  IF read THEN [type |-> type, from |-> c] @@ fields ELSE [type |-> type, from |-> c]

\* the values a field is drawn from: a field the handler never reads is
\* given one value
Field(read, values) == IF read THEN values ELSE {Undefined}

\* ---------------------------------------------------------------- sending
NoOutput == [c \in Conns |-> <<>>]

IsOpen(c) == ws[c].readyState = "OPEN"

\* ws.send(JSON.stringify(msg)) on connection c: nothing leaves on a
\* connection that is not open
Send(out, c, msg) ==
  IF IsOpen(c) THEN [out EXCEPT ![c] = Append(@, msg)] ELSE out

\* members.forEach(client => { if (client.readyState === OPEN) client.send(msg) })
SendEach(out, members, msg) ==
  [c \in Conns |-> IF c \in members /\ IsOpen(c) THEN Append(out[c], msg) ELSE out[c]]

\* --------------------------------------------------------------- registry
\* rooms[roomId] is truthy
HasRoom(rms, roomId) == \E i \in 1..Len(rms) : rms[i].id = roomId

\* rooms[roomId]
Room(rms, roomId) == rms[CHOOSE i \in 1..Len(rms) : rms[i].id = roomId]

\* rooms[roomId] = { sockets: new Set(), title, tags }, for a new key
PutRoom(rms, roomId, title, tags) ==
  Append(rms, [id |-> roomId, sockets |-> {}, title |-> title, tags |-> tags])

\* delete rooms[roomId]
DeleteRoom(rms, roomId) == SelectSeq(rms, LAMBDA r : r.id # roomId)

\* an add that replaces the members by the one added
AddSocketAlone(rms, roomId, c) ==
  [i \in 1..Len(rms) |->
     IF rms[i].id = roomId THEN [rms[i] EXCEPT !.sockets = {c}] ELSE rms[i]]

\* rooms[roomId].sockets.add(c)
AddSocket(rms, roomId, c) ==
  [i \in 1..Len(rms) |->
     IF rms[i].id = roomId THEN [rms[i] EXCEPT !.sockets = @ \cup {c}] ELSE rms[i]]

\* rooms[roomId].sockets.delete(c)
DeleteSocket(rms, roomId, c) ==
  [i \in 1..Len(rms) |->
     IF rms[i].id = roomId THEN [rms[i] EXCEPT !.sockets = @ \ {c}] ELSE rms[i]]

\* the leaving without the size check: an emptied room stays registered
RemoveSocketKeepsRoom(rms, roomId, c) == DeleteSocket(rms, roomId, c)

\* the leaving of lines 159-161 and 289-291: the socket is deleted, and the
\* room with it if that was its last
RemoveSocket(rms, roomId, c) ==
  LET rms1 == DeleteSocket(rms, roomId, c)
  IN  IF Cardinality(Room(rms1, roomId).sockets) = 0 THEN DeleteRoom(rms1, roomId)
      ELSE rms1

\* a broadcast that sends every member its copy twice
broadcastToRoomTwice(rms, out, roomId, obj) ==
  IF ~HasRoom(rms, roomId) THEN out
  ELSE SendEach(SendEach(out, Room(rms, roomId).sockets, obj),
                Room(rms, roomId).sockets, obj)

broadcastToRoom(rms, out, roomId, obj) ==
  IF ~HasRoom(rms, roomId) THEN out ELSE SendEach(out, Room(rms, roomId).sockets, obj)

\* lines 158-168 and 288-298: leave the room, tell who is left
LeaveAndTell(rms, roomId, c) ==
  LET rms1 == RemoveSocket(rms, roomId, c)
  IN  [rooms |-> rms1,
       sent |-> IF HasRoom(rms1, roomId)
                THEN broadcastToRoom(rms1, NoOutput, roomId,
                       [type |-> "leave-room", roomId |-> roomId])
                ELSE NoOutput]

\* the connection object as the 'connection' callback leaves it
NewConnection(c) ==
  [readyState |-> "OPEN", currentRoomId |-> Null, id |-> IdTable[c],
   role |-> "listener", handRaised |-> FALSE, canSpeak |-> FALSE,
   displayName |-> Anonymous]

\* a connection the server has not accepted yet
NotConnected(c) == [NewConnection(c) EXCEPT !.readyState = "NONE"]

\* the server after start-up, with n steps to follow
InitWith(n) ==
  /\ ws = [c \in Conns |-> NotConnected(c)]
  /\ rooms = <<>>
  /\ sent = NoOutput
  /\ last = NoFrame
  /\ crashed = FALSE
  /\ budget = n
  /\ acted = 0

Init == InitWith(MaxSteps)

\* a handler can run: the process is up, and the run is within the bound
CanStep == ~crashed /\ budget > 0

\* Connections are numbered in the order of their first event after being
\* accepted (a frame, or the transport closing): acted is the number of
\* connections that have had one.
InTurn(c) == c <= acted + 1

Acts(c) == acted' = IF c > acted THEN c ELSE acted

\* a frame arrives on an open connection
Receives(c) == CanStep /\ IsOpen(c) /\ InTurn(c)

Tick(c) == budget' = budget - 1 /\ Acts(c)

\* a handler that cannot change ws or rooms is followed no further: what
\* can come after it can come in its place
Leaf(c) == budget' = 0 /\ Acts(c)

\* ------------------------------------------------------------- transport
\* wss.on('connection'): connections are accepted in order of their number,
\* and before the first frame is handled: until its first frame a connection
\* is in no room and no handler reads it, so when it was accepted changes
\* nothing
OnConnection(c) ==
  /\ ~crashed
  /\ acted = 0
  /\ ws[c].readyState = "NONE"
  /\ \A d \in Conns : d < c => ws[d].readyState # "NONE"
  /\ ws' = [ws EXCEPT ![c] = NewConnection(c)]
  /\ sent' = NoOutput
  /\ last' = [type |-> "connection", from |-> c]
  /\ UNCHANGED <<rooms, crashed, budget, acted>>

\* the transport starts closing: readyState leaves OPEN before 'close' fires
BeginClose(c) ==
  /\ CanStep
  /\ InTurn(c)
  /\ IsOpen(c)
  /\ ws' = [ws EXCEPT ![c].readyState = "CLOSING"]
  /\ sent' = NoOutput
  /\ last' = [type |-> "closing", from |-> c]
  /\ Tick(c)
  /\ UNCHANGED <<rooms, crashed>>

\* ws.on('close')
OnClose(c) ==
  /\ CanStep
  /\ InTurn(c)
  /\ ws[c].readyState \in {"OPEN", "CLOSING"}
  /\ LET roomId == ws[c].currentRoomId
     IN  /\ ws' = [ws EXCEPT ![c].readyState = "CLOSED"]
         /\ IF Truthy(roomId) /\ HasRoom(rooms, roomId)
            THEN /\ rooms' = LeaveAndTell(rooms, roomId, c).rooms
                 /\ sent' = LeaveAndTell(rooms, roomId, c).sent
            ELSE /\ UNCHANGED rooms
                 /\ sent' = NoOutput
  /\ last' = [type |-> "close", from |-> c]
  /\ Tick(c)
  /\ UNCHANGED crashed

\* ------------------------------------------------- frames that are dropped
\* JSON.parse throws: the catch logs and returns
InvalidJson(c) ==
  /\ Receives(c)
  /\ sent' = NoOutput
  /\ last' = [type |-> "invalid-json", from |-> c]
  /\ Leaf(c)
  /\ UNCHANGED <<ws, rooms, crashed>>

\* the frame is the JSON text null: data.type at line 45 throws a TypeError
\* outside the try block, which nothing catches, and the process ends
NullFrame(c) ==
  /\ Receives(c)
  /\ crashed' = TRUE
  /\ sent' = NoOutput
  /\ last' = [type |-> "null-frame", from |-> c]
  /\ Leaf(c)
  /\ UNCHANGED <<ws, rooms>>

\* a record whose type no branch names, or a number, string or array
\* (data.type is undefined): every if fails and the handler ends
UnknownType(c) ==
  /\ Receives(c)
  /\ sent' = NoOutput
  /\ last' = [type |-> "unknown-type", from |-> c]
  /\ Leaf(c)
  /\ UNCHANGED <<ws, rooms, crashed>>

\* ------------------------------------------------------------- list-rooms
\* an entry that counts only the members whose transport is open
RoomSummaryCountsOpen(room) ==
  [roomId |-> room.id,
   title |-> IF Truthy(room.title) THEN room.title ELSE room.id,
   tags |-> room.tags,
   participantCount |-> Cardinality({m \in room.sockets : IsOpen(m)})]

\* one entry of the list, before the filter
RoomSummary(room) ==
  [roomId |-> room.id,
   title |-> IF Truthy(room.title) THEN room.title ELSE room.id,
   tags |-> room.tags,
   participantCount |-> Cardinality(room.sockets)]

\* r.tags.some(t => t.toLowerCase() === tagFilter)
HasTag(tags, tagFilter) ==
  \E i \in 1..Len(tags) : ToLowerCase(tags[i]) = tagFilter

\* the list a list-rooms with this tag is answered with
RoomsList(tag) ==
  LET tagFilter == IF Truthy(tag) THEN ToLowerCase(tag) ELSE tag
      all == [i \in 1..Len(rooms) |-> RoomSummary(rooms[i])]
  IN  SelectSeq(all, LAMBDA r : ~Truthy(tagFilter) \/ HasTag(r.tags, tagFilter))

ListRooms(c, tag) ==
  /\ Receives(c)
  /\ sent' = Send(NoOutput, c, [type |-> "rooms-list", rooms |-> RoomsList(tag)])
  /\ last' = [type |-> "list-rooms", from |-> c, tag |-> tag]
  /\ Leaf(c)
  /\ UNCHANGED <<ws, rooms, crashed>>

\* ------------------------------------------------------- the room guards
\* const roomId = ws.currentRoomId; if (!roomId || !rooms[roomId]) return;
InRoomGuard(c) == Truthy(ws[c].currentRoomId) /\ HasRoom(rooms, ws[c].currentRoomId)

\* the guard without the role check
HostGuardAnyRole(c) == InRoomGuard(c)

\* ... and then: if (ws.role !== 'host') return;
HostGuard(c) == InRoomGuard(c) /\ ws[c].role = "host"

\* --------------------------------------------------------------- set-name
\* (data.name || '').trim().slice(0, 40), then || 'Anonymous'
CleanName(name) ==
  LET n == Slice(Trim(name), NameCap)
  IN  IF n = <<>> THEN Anonymous ELSE n

SetName(c, name) ==
  /\ Receives(c)
  /\ LET roomId == ws[c].currentRoomId
         ws1 == [ws EXCEPT ![c].displayName = CleanName(name)]
     IN  /\ ws' = ws1
         /\ sent' = IF InRoomGuard(c)
                    THEN SendEach(NoOutput, Room(rooms, roomId).sockets,
                           [type |-> "name-updated", userId |-> ws1[c].id,
                            name |-> ws1[c].displayName])
                    ELSE NoOutput
  /\ last' = [type |-> "set-name", from |-> c, name |-> name]
  /\ Tick(c)
  /\ UNCHANGED <<rooms, crashed>>

\* ------------------------------------------------------------ create-room
\* lines 97-100
EnterAsHost(w, c, roomId) ==
  [w EXCEPT ![c].currentRoomId = roomId, ![c].role = "host",
            ![c].handRaised = FALSE, ![c].canSpeak = TRUE]

CreateRoom(c, roomId, title, tags) ==
  /\ Receives(c)
  /\ LET t == IF Truthy(title) THEN title ELSE roomId
         tg == IF tags.isArray THEN tags.v ELSE <<>>
         rms == IF HasRoom(rooms, roomId) THEN rooms ELSE PutRoom(rooms, roomId, t, tg)
     IN  /\ rooms' = AddSocket(rms, roomId, c)
         /\ ws' = EnterAsHost(ws, c, roomId)
         /\ sent' = Send(NoOutput, c,
                      [type |-> "create-room", roomId |-> roomId, title |-> t, tags |-> tg])
  /\ last' = [type |-> "create-room", from |-> c, roomId |-> roomId]
  /\ Tick(c)
  /\ UNCHANGED crashed

\* -------------------------------------------------------------- join-room
\* a snapshot that leaves out the members whose transport is not open
ExistingPeersOpenOnly(room) ==
  {[id |-> ws[s].id,
    name |-> IF ws[s].displayName # <<>> THEN ws[s].displayName ELSE Anonymous]
     : s \in {m \in room.sockets : IsOpen(m)}}

\* Array.from(room.sockets).map(s => ({id, name})), taken before the add
ExistingPeers(room) ==
  {[id |-> ws[s].id,
    name |-> IF ws[s].displayName # <<>> THEN ws[s].displayName ELSE Anonymous]
     : s \in room.sockets}

\* the entry without line 127: the role is kept
EnterAsListenerKeepsRole(w, c, roomId) ==
  [w EXCEPT ![c].currentRoomId = roomId, ![c].handRaised = FALSE, ![c].canSpeak = FALSE]

\* lines 126-129
EnterAsListener(w, c, roomId) ==
  [w EXCEPT ![c].currentRoomId = roomId, ![c].role = "listener",
            ![c].handRaised = FALSE, ![c].canSpeak = FALSE]

JoinRoom(c, roomId) ==
  /\ Receives(c)
  /\ LET rms == IF HasRoom(rooms, roomId) THEN rooms ELSE PutRoom(rooms, roomId, roomId, <<>>)
         existingPeers == ExistingPeers(Room(rms, roomId))
         rms2 == AddSocket(rms, roomId, c)
         out1 == Send(NoOutput, c, [type |-> "join-room", roomId |-> roomId])
         out2 == Send(out1, c, [type |-> "room-peers", peers |-> existingPeers])
     IN  /\ rooms' = rms2
         /\ ws' = EnterAsListener(ws, c, roomId)
         /\ sent' = SendEach(out2, Room(rms2, roomId).sockets \ {c},
                      [type |-> "peer-joined", userId |-> ws[c].id,
                       name |-> ws[c].displayName])
  /\ last' = [type |-> "join-room", from |-> c, roomId |-> roomId]
  /\ Tick(c)
  /\ UNCHANGED crashed

\* ------------------------------------------------------------- leave-room
\* the reset without its first line: the pointer to the room is kept
ResetOnLeaveKeepsRoom(w, c) ==
  [w EXCEPT ![c].role = "listener", ![c].handRaised = FALSE, ![c].canSpeak = FALSE]

\* lines 169-172
ResetOnLeave(w, c) ==
  [w EXCEPT ![c].currentRoomId = Null, ![c].role = "listener",
            ![c].handRaised = FALSE, ![c].canSpeak = FALSE]

LeaveRoom(c, roomIdArg) ==
  /\ Receives(c)
  /\ LET roomId == IF Truthy(roomIdArg) THEN roomIdArg ELSE ws[c].currentRoomId
     IN  /\ IF Truthy(roomId) /\ HasRoom(rooms, roomId)
            THEN /\ rooms' = LeaveAndTell(rooms, roomId, c).rooms
                 /\ sent' = LeaveAndTell(rooms, roomId, c).sent
            ELSE /\ UNCHANGED rooms
                 /\ sent' = NoOutput
         /\ ws' = ResetOnLeave(ws, c)
  /\ last' = [type |-> "leave-room", from |-> c, roomId |-> roomIdArg]
  /\ Tick(c)
  /\ UNCHANGED crashed

\* ------------------------------------------------------------- raise-hand
\* the forEach without the role test
HandRecipientsAll(w, room) == room.sockets

\* the members the forEach of line 183 sends to, were they all open
HandRecipients(w, room) == {m \in room.sockets : w[m].role = "host"}

RaiseHand(c, raised) ==
  /\ Receives(c)
  /\ IF ~InRoomGuard(c)
     THEN /\ UNCHANGED ws
          /\ sent' = NoOutput
     ELSE LET ws1 == [ws EXCEPT ![c].handRaised = ToBoolean(raised)]
          IN  /\ ws' = ws1
              /\ sent' = SendEach(NoOutput,
                           HandRecipients(ws1, Room(rooms, ws[c].currentRoomId)),
                           [type |-> "hand-updated", userId |-> ws1[c].id,
                            raised |-> ws1[c].handRaised])
  /\ last' = Frame(InRoomGuard(c), "raise-hand", c, [raised |-> raised])
  /\ Tick(c)
  /\ UNCHANGED <<rooms, crashed>>

\* ------------------------------------------------------------ allow-speak
\* the forEach without the readyState test
TargetsAnyState(room, userId) == {m \in room.sockets : ws[m].id = userId}

\* the members the forEach of an id-targeted operation acts on
Targets(room, userId) ==
  {m \in room.sockets : ws[m].id = userId /\ IsOpen(m)}

\* n copies of msg
Copies(n, msg) == [i \in 1..n |-> msg]

\* msg to each target and, for each target, an ack to the sender: ids are
\* distinct, so there is at most one target and the order is the code's
NotifyAndAck(targets, c, msg, acks) ==
  LET out == SendEach(NoOutput, targets, msg)
  IN  IF IsOpen(c) THEN [out EXCEPT ![c] = @ \o acks] ELSE out

AllowSpeak(c, userId, allowed) ==
  /\ Receives(c)
  /\ IF ~HostGuard(c)
     THEN /\ UNCHANGED ws
          /\ sent' = NoOutput
     ELSE LET targets == Targets(Room(rooms, ws[c].currentRoomId), userId)
          IN  /\ ws' = [m \in Conns |->
                         IF m \in targets
                         THEN [ws[m] EXCEPT !.canSpeak = ToBoolean(allowed)]
                         ELSE ws[m]]
              /\ sent' = NotifyAndAck(targets, c,
                           [type |-> "speak-permission", allowed |-> ToBoolean(allowed)],
                           Copies(Cardinality(targets),
                             [type |-> "speak-permission-updated", userId |-> userId,
                              allowed |-> ToBoolean(allowed)]))
  /\ last' = Frame(HostGuard(c), "allow-speak", c, [userId |-> userId, allowed |-> allowed])
  /\ Tick(c)
  /\ UNCHANGED <<rooms, crashed>>

\* ------------------------------------------ host-mute-audio, host-hide-video
HostControl(c, type, userId, allowed) ==
  /\ Receives(c)
  /\ IF ~HostGuard(c)
     THEN sent' = NoOutput
     ELSE LET targets == Targets(Room(rooms, ws[c].currentRoomId), userId)
          IN  sent' = IF type = "host-mute-audio"
                      THEN NotifyAndAck(targets, c,
                             [type |-> "remote-audio-control",
                              allowed |-> ToBoolean(allowed)],
                             Copies(Cardinality(targets),
                               [type |-> "speak-permission-updated", userId |-> userId,
                                allowed |-> ToBoolean(allowed)]))
                      ELSE NotifyAndAck(targets, c,
                             [type |-> "remote-video-control",
                              allowed |-> ToBoolean(allowed)],
                             <<>>)
  /\ last' = Frame(HostGuard(c), type, c, [userId |-> userId, allowed |-> allowed])
  /\ Leaf(c)
  /\ UNCHANGED <<ws, rooms, crashed>>

\* ----------------------------------------------------------- chat-message
\* data.name || ws.displayName || 'Anonymous'
ChatName(c, name) ==
  IF Truthy(name) THEN <<name>>
  ELSE IF ws[c].displayName # <<>> THEN ws[c].displayName ELSE Anonymous

ChatMessage(c, text, name) ==
  /\ Receives(c)
  /\ sent' = IF ~InRoomGuard(c) THEN NoOutput
             ELSE broadcastToRoom(rooms, NoOutput, ws[c].currentRoomId,
                    [type |-> "chat-message", text |-> text, name |-> ChatName(c, name)])
  /\ last' = Frame(InRoomGuard(c), "chat-message", c, [text |-> text, name |-> name])
  /\ Leaf(c)
  /\ UNCHANGED <<ws, rooms, crashed>>

\* ------------------------------------------- offer, answer, ice-candidate
\* the forEach without the client === ws test
SignalRecipientsWithSender(room, c, targetId) ==
  {m \in room.sockets : ~Truthy(targetId) \/ ws[m].id = targetId}

\* the members the forEach of line 271 does not return early for, were they
\* all open
SignalRecipients(room, c, targetId) ==
  {m \in room.sockets \ {c} : ~Truthy(targetId) \/ ws[m].id = targetId}

Signal(c, type, to, payload) ==
  /\ Receives(c)
  /\ LET targetId == IF Truthy(to) THEN to ELSE Null
     IN  sent' = IF ~InRoomGuard(c) THEN NoOutput
                 ELSE SendEach(NoOutput,
                        SignalRecipients(Room(rooms, ws[c].currentRoomId), c, targetId),
                        [type |-> type, from |-> ws[c].id, payload |-> payload])
  /\ last' = Frame(InRoomGuard(c), type, c, [to |-> to, payload |-> payload])
  /\ Leaf(c)
  /\ UNCHANGED <<ws, rooms, crashed>>

\* ------------------------------------------------------------------- Next
Next ==
  \E c \in Conns :
    \/ OnConnection(c)
    \/ BeginClose(c)
    \/ OnClose(c)
    \/ InvalidJson(c)
    \/ NullFrame(c)
    \/ UnknownType(c)
    \/ \E tag \in TagFilterInputs : ListRooms(c, tag)
    \/ \E name \in NameInputs : SetName(c, name)
    \/ \E roomId \in RoomIds, in \in CreateInputs :
         CreateRoom(c, roomId, in.title, in.tags)
    \/ \E roomId \in RoomIds : JoinRoom(c, roomId)
    \/ \E roomIdArg \in LeaveInputs : LeaveRoom(c, roomIdArg)
    \/ \E raised \in Field(InRoomGuard(c), FlagInputs) : RaiseHand(c, raised)
    \/ \E userId \in Field(HostGuard(c), UserIdInputs),
          allowed \in Field(HostGuard(c), FlagInputs) :
         AllowSpeak(c, userId, allowed)
    \/ \E type \in HostControlTypes,
          userId \in Field(HostGuard(c), UserIdInputs),
          allowed \in Field(HostGuard(c), FlagInputs) :
         HostControl(c, type, userId, allowed)
    \/ \E name \in Field(InRoomGuard(c), ChatNameInputs) : ChatMessage(c, "hi", name)
    \/ \E type \in SignalTypes, to \in Field(InRoomGuard(c), ToInputs) :
         Signal(c, type, to, "sdp")

Spec == Init /\ [][Next]_vars

\* the same server, followed one step further
InitDeep == InitWith(MaxSteps + 1)

SpecDeep == InitDeep /\ [][Next]_vars

\* ================================================================ claims
Holds(seq, msg) == \E i \in 1..Len(seq) : seq[i] = msg

\* the rooms of the registry that list connection c as a member
RoomsOf(c) == {i \in 1..Len(rooms) : c \in rooms[i].sockets}

\* C1: every connection is a member of at most one room, and a connection
\* that is a member of room r has currentRoomId = r's id.
C1_OneRoomPerConnection ==
  \A c \in Conns :
    /\ Cardinality(RoomsOf(c)) <= 1
    /\ \A i \in RoomsOf(c) : ws[c].currentRoomId = rooms[i].id

\* C2: a connection that has not closed and whose currentRoomId is a room
\* id r is a member of a room r of the registry.
C2_PointerImpliesMember ==
  \A c \in Conns :
    (ws[c].readyState # "CLOSED" /\ ws[c].currentRoomId # Null)
      => /\ HasRoom(rooms, ws[c].currentRoomId)
         /\ c \in Room(rooms, ws[c].currentRoomId).sockets

\* another connection has just sent leave-room naming the room an open
\* connection points to
C2_OtherLeftMyRoom ==
  /\ last.type = "leave-room"
  /\ \E c \in Conns :
       /\ c # last.from
       /\ IsOpen(c)
       /\ ws[c].currentRoomId = last.roomId
       /\ c \in Room(rooms, last.roomId).sockets

\* C3: after every step, every room of the registry has at least one member.
C3_NoEmptyRoom == \A i \in 1..Len(rooms) : rooms[i].sockets # {}

\* the last member of a room has just closed, and the room is gone
C3_RoomRemovedWhenEmptied ==
  /\ last.type = "close"
  /\ ws[last.from].currentRoomId # Null
  /\ rooms = <<>>

\* C4: the room-peers snapshot a join-room is answered with does not hold
\* the joining connection's own id.
C4_SnapshotExcludesJoiner ==
  last.type = "join-room" =>
    \A i \in 1..Len(sent[last.from]) :
      sent[last.from][i].type = "room-peers" =>
        \A p \in sent[last.from][i].peers : p.id # ws[last.from].id

\* C5: after a connection's close step, no room lists it as a member.
C5_CloseSeversMembership ==
  last.type = "close" => RoomsOf(last.from) = {}

\* C6: a step in which a connection whose role is listener sends allow-speak,
\* host-mute-audio or host-hide-video changes no connection and no room, and
\* sends nothing to anyone.
C6_ListenerHostOpsIgnored ==
  [][(/\ last'.type \in {"allow-speak"} \cup HostControlTypes
      /\ ws[last'.from].role = "listener")
       => (ws' = ws /\ rooms' = rooms /\ sent' = NoOutput)]_vars

\* a listener in a room with another open member has just sent one of them
C6_ListenerTriedHostOp ==
  /\ last.type \in {"allow-speak"} \cup HostControlTypes
  /\ ws[last.from].role = "listener"
  /\ HasRoom(rooms, ws[last.from].currentRoomId)
  /\ \E m \in Room(rooms, ws[last.from].currentRoomId).sockets :
       m # last.from /\ IsOpen(m)

\* C7: a frame that does not parse, that parses to null, or whose type is
\* not recognized changes no state, sends nothing, and leaves the server up.
C7_MalformedFramesDropped ==
  [][last'.type \in {"invalid-json", "null-frame", "unknown-type"}
       => (ws' = ws /\ rooms' = rooms /\ sent' = NoOutput /\ ~crashed')]_vars

\* the list of the whole registry: one entry per room, in the registry's
\* order, counting the room's members
C8_Listing(rms) ==
  [i \in 1..Len(rms) |->
     [roomId |-> rms[i].id, title |-> rms[i].title, tags |-> rms[i].tags,
      participantCount |-> Cardinality(rms[i].sockets)]]

\* C8: a list-rooms step changes no connection and no room and sends to the
\* sender only; with no tag the reply is the listing of the registry the step
\* leaves behind (so a second request right after gets the same), each
\* entry's participantCount the size of that room's member set.
C8_ListRoomsReadOnly ==
  [][last'.type = "list-rooms"
       => /\ ws' = ws /\ rooms' = rooms
          /\ \A c \in Conns : c # last'.from => sent'[c] = <<>>
          /\ Len(sent'[last'.from]) = 1
          /\ sent'[last'.from][1].type = "rooms-list"
          /\ last'.tag = Undefined
               => sent'[last'.from][1].rooms = C8_Listing(rooms')]_vars

\* a list-rooms with no tag has just been answered while a room has a
\* member that is not open
C8_ListedARoom ==
  /\ last.type = "list-rooms"
  /\ last.tag = Undefined
  /\ Len(sent[last.from]) = 1
  /\ \E i \in 1..Len(rooms) : \E m \in rooms[i].sockets : ~IsOpen(m)

\* the boolean a flag field asks for
C9_Requested(v) == v = "true"

\* C9: when a connection whose currentRoomId names a room of the registry
\* sends raise-hand, its handRaised becomes the requested boolean, and one
\* hand-updated with its id and that boolean goes to each open member of that
\* room whose role is host, and nothing to anyone else.
C9_RaiseHandReachesHosts ==
  [][(last'.type = "raise-hand" /\ InRoomGuard(last'.from))
       => LET c == last'.from
              room == Room(rooms, ws[c].currentRoomId)
              msg == [type |-> "hand-updated", userId |-> ws[c].id,
                      raised |-> C9_Requested(last'.raised)]
          IN  /\ last'.raised \in {"true", "false"}
                   => ws'[c].handRaised = C9_Requested(last'.raised)
              /\ \A m \in Conns :
                   sent'[m] = IF m \in room.sockets /\ ws[m].role = "host" /\ IsOpen(m)
                              THEN <<msg>> ELSE <<>>
              /\ \A m \in Conns : ws[m].role = "listener" => sent'[m] = <<>>]_vars

\* a listener has just raised its hand in a room with a host and another
\* listener: the host was told, the listeners were not
C9_HandRaisedToHost ==
  /\ last.type = "raise-hand"
  /\ "raised" \in DOMAIN last
  /\ last.raised = "true"
  /\ ws[last.from].handRaised
  /\ ws[last.from].role = "listener"
  /\ \E h \in Conns :
       /\ h # last.from
       /\ ws[h].role = "host"
       /\ sent[h] = <<[type |-> "hand-updated", userId |-> ws[last.from].id,
                       raised |-> TRUE]>>
  /\ sent[last.from] = <<>>

\* what an allow-speak step of a host in a room does when the members it is
\* to act on are `who`: each gets the requested canSpeak and a
\* speak-permission, the host an acknowledgment, and nothing else changes;
\* with nobody to act on, nothing changes and nothing is sent
C10_Effect(who) ==
  LET h == last'.from
      allowed == C9_Requested(last'.allowed)
  IN  IF who # {}
      THEN /\ \A m \in who :
                /\ ws'[m] = [ws[m] EXCEPT !.canSpeak = allowed]
                /\ Holds(sent'[m], [type |-> "speak-permission", allowed |-> allowed])
           /\ Holds(sent'[h], [type |-> "speak-permission-updated",
                               userId |-> last'.userId, allowed |-> allowed])
           /\ \A m \in Conns \ who : ws'[m] = ws[m]
           /\ \A m \in Conns \ (who \cup {h}) : sent'[m] = <<>>
           /\ rooms' = rooms
      ELSE ws' = ws /\ rooms' = rooms /\ sent' = NoOutput

\* the members of the sender's room that have the id the frame names
C10_Named ==
  {m \in Room(rooms, ws[last'.from].currentRoomId).sockets : ws[m].id = last'.userId}

\* C10 as stated: when a host in a room sends allow-speak, the member of its
\* room with the named id gets the requested canSpeak and a speak-permission
\* and the host an acknowledgment; if no member has that id, nothing changes
\* and nothing is sent.
C10_AllowSpeakReachesMember ==
  [][(last'.type = "allow-speak" /\ HostGuard(last'.from)) => C10_Effect(C10_Named)]_vars

\* C10 amended: the same, for the member with the named id whose transport
\* is open; if no open member has that id, nothing changes and nothing is sent.
C10_AllowSpeakReachesOpenMember ==
  [][(last'.type = "allow-speak" /\ HostGuard(last'.from))
       => C10_Effect({m \in C10_Named : IsOpen(m)})]_vars

\* a host has just let an open listener of its room speak
C10_ListenerAllowed ==
  /\ last.type = "allow-speak"
  /\ "userId" \in DOMAIN last
  /\ last.allowed = "true"
  /\ \E m \in Conns :
       /\ m # last.from
       /\ ws[m].id = last.userId
       /\ ws[m].role = "listener"
       /\ ws[m].canSpeak
       /\ sent[m] = <<[type |-> "speak-permission", allowed |-> TRUE]>>
  /\ sent[last.from] = <<[type |-> "speak-permission-updated",
                          userId |-> last.userId, allowed |-> TRUE]>>

\* C11: when a connection whose currentRoomId names a room of the registry
\* sends offer, answer or ice-candidate, no connection and no room changes and
\* the sender receives nothing; with a to id (a to that line 269 keeps: not
\* absent, not empty) the relayed message goes to at most one connection, a
\* member of that room with that id, and to nobody if no member has it; with
\* no to it goes, once, to every other open member of that room and to
\* nobody else.
C11_SignalRelay ==
  [][(last'.type \in SignalTypes /\ InRoomGuard(last'.from))
       => LET c == last'.from
              room == Room(rooms, ws[c].currentRoomId)
              msg == [type |-> last'.type, from |-> ws[c].id, payload |-> last'.payload]
              got == {m \in Conns : sent'[m] # <<>>}
          IN  /\ ws' = ws /\ rooms' = rooms
              /\ c \notin got
              /\ \A m \in got : sent'[m] = <<msg>>
              /\ IF Truthy(last'.to)
                 THEN /\ Cardinality(got) <= 1
                      /\ \A m \in got : m \in room.sockets /\ ws[m].id = last'.to
                      /\ (\A m \in room.sockets : ws[m].id # last'.to) => got = {}
                 ELSE got = {m \in room.sockets \ {c} : IsOpen(m)}]_vars

\* a signaling frame with a to id has just been relayed to the member it names
C11_RelayedToTarget ==
  /\ last.type \in SignalTypes
  /\ "to" \in DOMAIN last
  /\ Truthy(last.to)
  /\ \E m \in Conns : m # last.from /\ ws[m].id = last.to /\ Len(sent[m]) = 1
  /\ sent[last.from] = <<>>

\* C12: a chat-message step changes no connection and no room; when the
\* sender's currentRoomId names a room of the registry, every open member of
\* that room, the sender among them, receives the message exactly once and
\* nobody else receives anything; when it names none, nobody receives anything.
C12_ChatReachesRoom ==
  [][last'.type = "chat-message"
       => LET c == last'.from
          IN  /\ ws' = ws /\ rooms' = rooms
              /\ IF InRoomGuard(c)
                 THEN LET room == Room(rooms, ws[c].currentRoomId)
                      IN  /\ \A m \in Conns :
                               IF m \in room.sockets /\ IsOpen(m)
                               THEN /\ Len(sent'[m]) = 1
                                    /\ sent'[m][1].type = "chat-message"
                                    /\ sent'[m][1].text = last'.text
                               ELSE sent'[m] = <<>>
                          /\ sent'[c] # <<>>
                 ELSE sent' = NoOutput]_vars

\* a chat-message has just reached its sender and another member
C12_ChatDelivered ==
  /\ last.type = "chat-message"
  /\ Len(sent[last.from]) = 1
  /\ \E m \in Conns : m # last.from /\ sent[m] = sent[last.from]

\* C13: in every step, a connection whose role changes is the sender of a
\* create-room, join-room or leave-room; after create-room the sender's role
\* is host, after join-room listener, and after leave-room (whether or not it
\* was in a room) listener with canSpeak and handRaised false.
C13_RoleSetByOwnEntry ==
  [][/\ \A m \in Conns :
          ws'[m].role # ws[m].role
            => /\ last'.from = m
               /\ last'.type \in {"create-room", "join-room", "leave-room"}
     /\ last'.type = "create-room" => ws'[last'.from].role = "host"
     /\ last'.type = "join-room" => ws'[last'.from].role = "listener"
     /\ last'.type = "leave-room"
          => /\ ws'[last'.from].role = "listener"
             /\ ~ws'[last'.from].canSpeak
             /\ ~ws'[last'.from].handRaised]_vars

\* a connection has just sent leave-room naming the room of another
\* connection, a host, which is a host still
C13_LeaveNamedAHostsRoom ==
  /\ last.type = "leave-room"
  /\ ws[last.from].role = "listener"
  /\ \E h \in Conns :
       /\ h # last.from
       /\ ws[h].role = "host"
       /\ ws[h].currentRoomId = last.roomId

\* C14: when a connection that is a member of room R sends a leave-room that
\* names R (or names none while R is its current room), or closes: if R has
\* other members, R stays registered with the former members less that one
\* and each of them that is open receives one leave-room naming R; if it has
\* none, R is removed and nothing is sent.
C14_DepartureUpdatesRoom ==
  [][last'.type \in {"leave-room", "close"}
       => LET c == last'.from
              departs(R) ==
                \/ last'.type = "close"
                \/ R = (IF Truthy(last'.roomId) THEN last'.roomId
                        ELSE ws[c].currentRoomId)
          IN  \A i \in 1..Len(rooms) :
                (c \in rooms[i].sockets /\ departs(rooms[i].id))
                  => LET R == rooms[i].id
                         rest == rooms[i].sockets \ {c}
                     IN  IF rest # {}
                         THEN /\ HasRoom(rooms', R)
                              /\ Room(rooms', R).sockets = rest
                              /\ \A m \in rest :
                                   IsOpen(m) =>
                                     sent'[m] = <<[type |-> "leave-room", roomId |-> R]>>
                         ELSE /\ ~HasRoom(rooms', R)
                              /\ sent' = NoOutput]_vars

\* C15: after a create-room step the sender, and nobody else, has received
\* one create-room acknowledgment whose roomId, title and tags are the id,
\* title and tags the registry now holds for that room.
C15_AckCarriesRoomMetadata ==
  last.type = "create-room" =>
    /\ \A m \in Conns : m # last.from => sent[m] = <<>>
    /\ HasRoom(rooms, last.roomId)
    /\ sent[last.from] =
         <<[type |-> "create-room", roomId |-> last.roomId,
            title |-> Room(rooms, last.roomId).title,
            tags |-> Room(rooms, last.roomId).tags]>>

\* C16: in a join-room step the sender receives the join-room acknowledgment
\* and then room-peers, and nothing else; room-peers lists the id and name of
\* exactly the members the room had before the step; every other member of
\* the room that is open receives one peer-joined with the sender's id, and
\* nobody else receives anything.
C16_JoinAckThenPeers ==
  [][last'.type = "join-room"
       => LET c == last'.from
              R == last'.roomId
              before == IF HasRoom(rooms, R) THEN Room(rooms, R).sockets ELSE {}
          IN  /\ Len(sent'[c]) = 2
              /\ sent'[c][1] = [type |-> "join-room", roomId |-> R]
              /\ sent'[c][2].type = "room-peers"
              /\ sent'[c][2].peers =
                   {[id |-> ws[s].id, name |-> ws[s].displayName] : s \in before}
              /\ \A m \in Conns \ {c} :
                   IF m \in before /\ IsOpen(m)
                   THEN /\ Len(sent'[m]) = 1
                        /\ sent'[m][1].type = "peer-joined"
                        /\ sent'[m][1].userId = ws[c].id
                   ELSE sent'[m] = <<>>]_vars

\* a connection has just joined a room that had a member whose transport is
\* closing: the snapshot names that member, which is told nothing
C16_JoinedBesideClosing ==
  /\ last.type = "join-room"
  /\ Len(sent[last.from]) = 2
  /\ \E m \in Conns :
       /\ m # last.from
       /\ ws[m].readyState = "CLOSING"
       /\ ws[m].currentRoomId = last.roomId
       /\ \E p \in sent[last.from][2].peers : p.id = ws[m].id
       /\ sent[m] = <<>>

\* C17: a create-room step on a room id the registry already holds leaves
\* that room's title and tags and every other connection as they were, makes
\* the room's members the former ones and the sender, and leaves the sender
\* with role host and canSpeak true.
C17_CreateOnExistingRoom ==
  [][(last'.type = "create-room" /\ HasRoom(rooms, last'.roomId))
       => LET c == last'.from
              R == last'.roomId
          IN  /\ HasRoom(rooms', R)
              /\ Room(rooms', R).title = Room(rooms, R).title
              /\ Room(rooms', R).tags = Room(rooms, R).tags
              /\ Room(rooms', R).sockets = Room(rooms, R).sockets \cup {c}
              /\ \A m \in Conns \ {c} : ws'[m] = ws[m]
              /\ ws'[c].role = "host"
              /\ ws'[c].canSpeak]_vars

\* a create-room has just left its room with two members whose role is host
\* and whose current room it is
C17_TwoHosts ==
  /\ last.type = "create-room"
  /\ \E a, b \in Room(rooms, last.roomId).sockets :
       /\ a # b
       /\ ws[a].role = "host" /\ ws[a].currentRoomId = last.roomId
       /\ ws[b].role = "host" /\ ws[b].currentRoomId = last.roomId

\* C18: in every step, for every room R of the registry: a leave-room
\* notification naming R is received only if the sender of the step was a
\* member of R and the step is its leave-room or its close; and a leave-room
\* frame naming R from a connection that is not a member of R leaves R as it
\* was and sends nothing to R's members.
C18_LeaveNoticeOnlyOnDeparture ==
  [][\A i \in 1..Len(rooms) :
       LET R == rooms[i].id
           notice == [type |-> "leave-room", roomId |-> R]
       IN  /\ (\E m \in Conns : Holds(sent'[m], notice))
                => /\ last'.type \in {"leave-room", "close"}
                   /\ last'.from \in rooms[i].sockets
           /\ (/\ last'.type = "leave-room"
               /\ last'.roomId = R
               /\ last'.from \notin rooms[i].sockets)
                => /\ HasRoom(rooms', R)
                   /\ Room(rooms', R) = rooms[i]
                   /\ \A m \in rooms[i].sockets : sent'[m] = <<>>]_vars

\* the message types that carry a room's traffic
C19_RoomTraffic ==
  {"chat-message", "name-updated", "peer-joined", "hand-updated"} \cup SignalTypes

\* C19: after a chat-message, set-name, join-room, raise-hand or signaling
\* step, every connection that received a chat-message, name-updated,
\* peer-joined, hand-updated or relayed offer, answer or ice-candidate has
\* the sender's current room as its currentRoomId.
C19_TrafficStaysInRoom ==
  last.type \in {"chat-message", "set-name", "join-room", "raise-hand"} \cup SignalTypes
    => \A m \in Conns :
         (\E k \in 1..Len(sent[m]) : sent[m][k].type \in C19_RoomTraffic)
           => ws[m].currentRoomId = ws[last.from].currentRoomId

\* C20: after every step, every room of the registry has a member whose
\* transport has not closed.
C20_EveryRoomHasLiveMember ==
  \A i \in 1..Len(rooms) :
    \E m \in rooms[i].sockets : ws[m].readyState # "CLOSED"
====
